---- MODULE Spec2Model ----
(***************************************************************************)
(* Model of the grammar front-end of ContextFreeGrammars:                  *)
(*                                                                         *)
(*   source/grammar/lockable_type.py    LockableType: the lock-once object *)
(*                                      discipline (lock, unlock, new,     *)
(*                                      __setattr__, __eq__, __hash__)     *)
(*   source/grammar/tree_transformer.py ChomskyGrammarTreeTransformer: the *)
(*                                      per-tag handlers of the tree walk  *)
(*                                                                         *)
(* Two specifications share the module.  SpecLock runs the life cycle of   *)
(* LockableType values on a small heap.  SpecTree applies one handler of   *)
(* the transformer to one node (a tag and its already-converted children). *)
(***************************************************************************)
EXTENDS Naturals, Sequences, FiniteSets, TLC

VARIABLES
    heap,       \* sequence of LockableType objects; an object's id is its index
    source,     \* source[k]: the object new() copied k from, 0 for a constructed one
    next_hash,  \* the counter behind get_unique_hash()
    last,       \* the last operation: [op, obj, name, val]
    err,        \* what the last operation raised: "none" or an exception's name
    tag,        \* transformer: the tag of the node being converted
    children,   \* transformer: the node's already-converted children
    result,     \* transformer: what the handler returned
    pc          \* transformer: "idle", "call" or "done"

vars == <<heap, source, next_hash, last, err, tag, children, result, pc>>
lockVars == <<heap, source, next_hash, last, err>>
treeVars == <<tag, children, result, pc>>

(***************************************************************************)
(* Bounds of the model.                                                    *)
(***************************************************************************)
MaxObjs == 2
MaxChildren == 3

(***************************************************************************)
(* Part 1: LockableType.                                                   *)
(***************************************************************************)

\* The payloads a symbol is constructed with or assigned.
Payloads == {"a", "ab"}

Variants == {"Terminal", "NonTerminal"}

\* Attribute names an assignment may target: the symbol's payload.  The guard of
\* __setattr__ does not read the name, so one data attribute stands for all.
AttrNames == {"text"}

\* A callable stored in _str/_len.  <<"method", i>> is the class's method bound
\* to object i; <<"lambda", j>> is the closure lock() creates, which reads
\* attribute str (or len) of the object j it was created on.
BoundMethod(i) == <<"method", i>>
CacheLambda(i) == <<"lambda", i>>

\* hash() of a text: a function of the text alone, disjoint from identity hashes.
StrHash(s) == <<"str", s>>

\* get_unique_hash(): a fresh identity token per constructed object.
get_unique_hash(n) == <<"id", n + 1>>

\* The variant's rendering and length rules (Symbol: its payload, unchanged).
Render(o) == o.text
Length(o) == Len(o.text)

\* LockableType.__str__: calls the callable stored in _str.
Str(h, i) ==
    LET f == h[i].str_fn
    IN  IF f[1] = "method" THEN Render(h[f[2]]) ELSE h[f[2]].str

\* LockableType.__len__: calls the callable stored in _len.
LenOf(h, i) ==
    LET f == h[i].len_fn
    IN  IF f[1] = "method" THEN Length(h[f[2]]) ELSE h[f[2]].len[1]

\* LockableType.__hash__
Hash(h, i) == h[i].hash

\* LockableType.__eq__ between two LockableType values: their hashes compared.
Eq(h, i, j) == Hash(h, i) = Hash(h, j)

\* LockableType.__init__ followed by the variant's constructor storing its payload.
\* len is <<>> while the attribute does not exist and <<n>> once lock() set it.
NewObject(cls, t, i, n) ==
    [ cls |-> cls, text |-> t, locked |-> FALSE, str |-> "", len |-> <<>>,
      hash |-> get_unique_hash(n),
      str_fn |-> BoundMethod(i), len_fn |-> BoundMethod(i),
      original_str |-> BoundMethod(i), original_len |-> BoundMethod(i),
      original_hash |-> get_unique_hash(n) ]

\* The guard of LockableType.__setattr__: it raises when the object is locked.
SetAttrRaisesIgnoringLock(h, i) == FALSE
SetAttrRaises(h, i) == h[i].locked

\* LockableType.__setattr__: the heap after self.name = v.
SetAttr(h, i, name, v) ==
    IF SetAttrRaises(h, i) THEN h ELSE [h EXCEPT ![i][name] = v]

\* LockableType.unlock
unlock(h, i) ==
    IF ~h[i].locked THEN h
    ELSE [h EXCEPT ![i].locked = FALSE,
                   ![i].len_fn = h[i].original_len,
                   ![i].str_fn = h[i].original_str,
                   ![i].hash = h[i].original_hash]

\* LockableType.lock
lock(h, i) ==
    IF h[i].locked THEN h
    ELSE LET h1 == [h EXCEPT ![i].str = Str(h, i)]
             h2 == [h1 EXCEPT ![i].str_fn = CacheLambda(i)]
             h3 == [h2 EXCEPT ![i].len = <<LenOf(h2, i)>>]
             h4 == [h3 EXCEPT ![i].len_fn = CacheLambda(i)]
             h5 == [h4 EXCEPT ![i].hash = StrHash(Str(h4, i))]
         IN  [h5 EXCEPT ![i].locked = TRUE]

\* copy.deepcopy of a callable held in an attribute of object i, the copy being k:
\* a bound method is rebuilt on the copy of its __self__, a function (the lambda,
\* closure included) is copied by reference.
DeepCopyFn(f, i, k) ==
    IF f[1] = "method" /\ f[2] = i THEN BoundMethod(k) ELSE f

\* copy.deepcopy(self): a new object whose __dict__ is the deep copy of self's.
deepcopy(h, i, k) ==
    [ h[i] EXCEPT !.str_fn = DeepCopyFn(h[i].str_fn, i, k),
                  !.len_fn = DeepCopyFn(h[i].len_fn, i, k),
                  !.original_str = DeepCopyFn(h[i].original_str, i, k),
                  !.original_len = DeepCopyFn(h[i].original_len, i, k) ]

\* LockableType.new: the heap with the copy appended at index Len(h) + 1.
newKeepingLock(h, i, unlocked) ==
    LET k == Len(h) + 1
    IN  Append(h, deepcopy(h, i, k))
new(h, i, unlocked) ==
    LET k  == Len(h) + 1
        h1 == Append(h, deepcopy(h, i, k))
    IN  IF unlocked THEN unlock(h1, k) ELSE lock(h1, k)

Objs == DOMAIN heap

NoOp == [op |-> "none", obj |-> 0, name |-> "", val |-> ""]

InitLock ==
    /\ heap = <<>>
    /\ source = <<>>
    /\ next_hash = 0
    /\ last = NoOp
    /\ err = "none"
    /\ tag = "" /\ children = <<>> /\ result = <<"None">> /\ pc = "idle"

\* Terminal(t) / NonTerminal(t)
Construct ==
    \E cls \in Variants, t \in Payloads :
        /\ Len(heap) < MaxObjs
        /\ heap' = Append(heap, NewObject(cls, t, Len(heap) + 1, next_hash))
        /\ source' = Append(source, 0)
        /\ next_hash' = next_hash + 1
        /\ last' = [op |-> "construct", obj |-> Len(heap) + 1, name |-> cls, val |-> t]
        /\ err' = "none"
        /\ UNCHANGED treeVars

\* x.name = v
Assign ==
    \E i \in Objs, name \in AttrNames, v \in Payloads :
        /\ heap' = SetAttr(heap, i, name, v)
        /\ err' = IF SetAttrRaises(heap, i) THEN "AttributeError" ELSE "none"
        /\ last' = [op |-> "setattr", obj |-> i, name |-> name, val |-> v]
        /\ UNCHANGED <<source, next_hash>>
        /\ UNCHANGED treeVars

\* x.lock()
Lock ==
    \E i \in Objs :
        /\ heap' = lock(heap, i)
        /\ last' = [op |-> "lock", obj |-> i, name |-> "", val |-> ""]
        /\ err' = "none"
        /\ UNCHANGED <<source, next_hash>>
        /\ UNCHANGED treeVars

\* x.unlock()
Unlock ==
    \E i \in Objs :
        /\ heap' = unlock(heap, i)
        /\ last' = [op |-> "unlock", obj |-> i, name |-> "", val |-> ""]
        /\ err' = "none"
        /\ UNCHANGED <<source, next_hash>>
        /\ UNCHANGED treeVars

\* x.new(unlocked)
New ==
    \E i \in Objs, unlocked \in BOOLEAN :
        /\ Len(heap) < MaxObjs
        /\ heap' = new(heap, i, unlocked)
        /\ source' = Append(source, i)
        /\ last' = [op |-> "new", obj |-> i,
                    name |-> IF unlocked THEN "unlocked" ELSE "locked", val |-> ""]
        /\ err' = "none"
        /\ UNCHANGED next_hash
        /\ UNCHANGED treeVars

NextLock == Construct \/ Assign \/ Lock \/ Unlock \/ New

SpecLock == InitLock /\ [][NextLock]_vars

(***************************************************************************)
(* Part 2: ChomskyGrammarTreeTransformer.                                  *)
(*                                                                         *)
(* Values the handlers see and build, each a tuple led by its type:        *)
(*   <<"Token", s>>              a raw token of the parser (a str)         *)
(*   <<"str", s>>                a Python str                              *)
(*   <<"list", xs>>              a Python list                             *)
(*   <<"Terminal", payload>>     Terminal(payload)                         *)
(*   <<"NonTerminal", payload>>  NonTerminal(payload)                      *)
(*   <<"Production", xs, locked>> a Production and its symbols             *)
(*   <<"Tree", tag, children>>   a tree node of the parser                 *)
(*   <<"None">>                  nothing returned                          *)
(***************************************************************************)
Token(s) == <<"Token", s>>
PyString(s) == <<"str", s>>
PyList(xs) == <<"list", xs>>
None == <<"None">>

\* Terminal(payload), NonTerminal(payload): the payload is kept as given.
Terminal(payload) == <<"Terminal", payload>>
NonTerminal(payload) == <<"NonTerminal", payload>>
Symbol(Type, payload) == <<Type, payload>>

\* Production(): empty and not locked.
Production == <<"Production", <<>>, FALSE>>

\* Production.add(symbol): appends while the production is not locked.
add(production, symbol) ==
    IF production[3] THEN production
    ELSE <<"Production", Append(production[2], symbol), FALSE>>

\* isinstance( production, ( Terminal, NonTerminal ) )
isinstance_symbol(v) == v[1] \in {"Terminal", "NonTerminal"}

\* "".join( results )
RECURSIVE join(_)
join(results) ==
    IF results = <<>> THEN "" ELSE Head(results) \o join(Tail(results))

\* str( value ): a token is its text, a symbol renders its payload, a production
\* the renderings of its symbols in order.
RECURSIVE str(_)
str(v) ==
    IF v[1] \in {"Token", "str"} THEN v[2]
    ELSE IF v[1] \in {"Terminal", "NonTerminal"} THEN v[2][2]
    ELSE join([k \in DOMAIN v[2] |-> str(v[2][k])])

\* The literal meta-character handlers and the default each passes to
\* _parse_symbol.  A TLA+ string cannot hold the grave accent, so the default
\* of `backtick` (line 179) is written "GRAVE".
Defaults ==
    [ epsilon |-> "&", quote |-> "'", minus |-> "-", plus |-> "+", star |-> "*",
      comma |-> ",", colon |-> ":", dot |-> ".", double_quote |-> "\"",
      percentage |-> "%", dollar |-> "$", at_sign |-> "@", sharp |-> "#",
      exclamation |-> "!", backtick |-> "GRAVE", tick |-> "´", caret |-> "^",
      tilde |-> "~", question |-> "?", equals |-> "=", semicolon |-> ";",
      slash |-> "/", backslash |-> "\\", open_paren |-> "(", close_paren |-> ")",
      open_bracket |-> "[", close_bracket |-> "]", open_brace |-> "{",
      close_brace |-> "}" ]

LiteralTags == DOMAIN Defaults

\* The tags the class defines a handler for.
HandlerTags ==
    LiteralTags \cup {"non_terminal_start", "terminal", "non_terminal", "production"}

\* Tags of the parser's tree the class defines no handler for (lines 38-49).
OtherTags == {"productions", "non_terminals", "end_symbol"}

Tags == HandlerTags \cup OtherTags

\* _parse_symbol( _terminal, default )
_parse_symbol(_terminal, default) ==
    IF Len(_terminal) # 0 THEN Terminal(PyList(_terminal))
    ELSE Terminal(PyString(default))

\* _parse_symbols( _symbols, Type )
_parse_symbols_first_only(_symbols, Type) ==
    Symbol(Type, PyString(IF _symbols = <<>> THEN "" ELSE str(_symbols[1])))
_parse_symbols(_symbols, Type) ==
    LET results == [k \in DOMAIN _symbols |-> str(_symbols[k])]
    IN  Symbol(Type, PyString(join(results)))

\* production( productions )
RECURSIVE production_loop(_, _)
production_loop(new_production, productions) ==
    IF productions = <<>> THEN new_production
    ELSE production_loop(
             IF isinstance_symbol(Head(productions))
             THEN add(new_production, Head(productions))
             ELSE new_production,
             Tail(productions))

RECURSIVE production_adding_all(_)
production_adding_all(productions) ==
    IF productions = <<>> THEN Production
    ELSE add(production_adding_all(SubSeq(productions, 1, Len(productions) - 1)),
             productions[Len(productions)])
production(productions) == production_loop(Production, productions)

\* non_terminal_start( non_terminal ), given a non-empty list.
non_terminal_start(non_terminal) == add(Production, non_terminal[1])

\* A tag without a handler: lark.Transformer, the base class, rebuilds the node
\* from its converted children.
default_dropping_node(data, kids) == None
default_handler(data, kids) == <<"Tree", data, kids>>

\* What a node's children may be: raw tokens and already-converted values.
ChildValues ==
    { Token("a"), Token("b"), Token("c"), Token("'"),
      Terminal(PyString("a")), NonTerminal(PyString("A")),
      add(Production, NonTerminal(PyString("S"))) }

RECURSIVE ListsUpTo(_)
ListsUpTo(n) ==
    IF n = 0 THEN {<<>>}
    ELSE LET shorter == ListsUpTo(n - 1)
         IN  shorter \cup {Append(xs, v) : xs \in {ys \in shorter : Len(ys) = n - 1},
                                           v \in ChildValues}

InitTree ==
    /\ tag \in Tags
    /\ children \in ListsUpTo(MaxChildren)
    /\ result = None
    /\ pc = "call"
    /\ err = "none"
    /\ heap = <<>> /\ source = <<>> /\ next_hash = 0 /\ last = NoOp

Return(value, raised) ==
    /\ result' = value
    /\ err' = raised
    /\ pc' = "done"
    /\ UNCHANGED <<tag, children, heap, source, next_hash, last>>

NonTerminalStartHandler ==
    /\ pc = "call" /\ tag = "non_terminal_start"
    /\ IF children = <<>> THEN Return(None, "IndexError")
       ELSE Return(non_terminal_start(children), "none")

TerminalHandler ==
    /\ pc = "call" /\ tag = "terminal"
    /\ Return(_parse_symbols(children, "Terminal"), "none")

NonTerminalHandler ==
    /\ pc = "call" /\ tag = "non_terminal"
    /\ Return(_parse_symbols(children, "NonTerminal"), "none")

LiteralHandler ==
    /\ pc = "call" /\ tag \in LiteralTags
    /\ Return(_parse_symbol(children, Defaults[tag]), "none")

ProductionHandler ==
    /\ pc = "call" /\ tag = "production"
    /\ Return(production(children), "none")

DefaultHandler ==
    /\ pc = "call" /\ tag \notin HandlerTags
    /\ Return(default_handler(tag, children), "none")

NextTree ==
    \/ NonTerminalStartHandler
    \/ TerminalHandler
    \/ NonTerminalHandler
    \/ LiteralHandler
    \/ ProductionHandler
    \/ DefaultHandler

SpecTree == InitTree /\ [][NextTree]_vars

(***************************************************************************)
(* Claims about LockableType, checked under SpecLock.                      *)
(***************************************************************************)

\* C1: an attribute assignment on a locked value raises the locked-mutation
\* error and leaves the whole heap (every attribute, the cached rendering and
\* length, the hash) unchanged; on a value that is not locked it succeeds and
\* stores the value; the payload changes by assignment only; and lock() on a
\* value that is not locked caches the rendering, length and hash of the payload
\* as last assigned.
C1_LockedAssignmentFails ==
    [][\A i \in DOMAIN heap :
        /\ (last'.op = "setattr" /\ last'.obj = i /\ heap[i].locked)
              => (err' = "AttributeError" /\ heap' = heap)
        /\ (last'.op = "setattr" /\ last'.obj = i /\ ~heap[i].locked)
              => /\ err' = "none"
                 /\ heap'[i][last'.name] = last'.val
                 /\ \A j \in DOMAIN heap : j # i => heap'[j] = heap[j]
        /\ ~(last'.op = "setattr" /\ last'.obj = i)
              => heap'[i].text = heap[i].text
        /\ (last'.op = "lock" /\ last'.obj = i /\ ~heap[i].locked)
              => /\ heap'[i].locked
                 /\ heap'[i].str = heap[i].text
                 /\ Str(heap', i) = heap[i].text
                 /\ heap'[i].len = <<Len(heap[i].text)>>
                 /\ LenOf(heap', i) = Len(heap[i].text)
                 /\ Hash(heap', i) = StrHash(heap[i].text)
      ]_vars

\* C1 witness: an assignment was attempted on a locked value and raised.
C1_Witness ==
    /\ last.op = "setattr"
    /\ err = "AttributeError"
    /\ heap[last.obj].locked
    /\ heap[last.obj].str = heap[last.obj].text

\* C2: Terminal(t) never equals NonTerminal(t), and Terminal(t) == Terminal(t2)
\* exactly when t = t2, in every life-cycle state of the two symbols.
C2_VariantAndTextDecideEquality ==
    \A i \in Objs, j \in Objs :
        i # j =>
            /\ (heap[i].cls # heap[j].cls /\ heap[i].text = heap[j].text)
                  => ~Eq(heap, i, j)
            /\ (heap[i].cls = "Terminal" /\ heap[j].cls = "Terminal")
                  => (Eq(heap, i, j) <=> heap[i].text = heap[j].text)

\* C3: new(unlocked=True) returns a value on which assignment succeeds,
\* new(unlocked=False) one on which it raises; the source, its lock state
\* included, and every other object are unchanged.
C3_NewSetsLockState ==
    [][last'.op = "new" /\ Len(heap') = Len(heap) + 1 =>
        LET k == Len(heap')
        IN  /\ \A j \in DOMAIN heap : heap'[j] = heap[j]
            /\ (last'.name = "unlocked") =>
                  /\ ~SetAttrRaises(heap', k)
                  /\ \A v \in Payloads : SetAttr(heap', k, "text", v)[k].text = v
            /\ (last'.name = "locked") =>
                  /\ SetAttrRaises(heap', k)
                  /\ \A v \in Payloads : SetAttr(heap', k, "text", v) = heap'
      ]_vars

\* C3 witness: a locked source was copied with new(unlocked=True), the copy is
\* not locked and the source still is.
C3_Witness ==
    /\ last.op = "new"
    /\ last.name = "unlocked"
    /\ Len(heap) >= 2
    /\ source[Len(heap)] = last.obj
    /\ heap[last.obj].locked
    /\ ~heap[Len(heap)].locked

\* C4: once new() returned a copy, no unlock(), assignment or lock() on the
\* source changes the copy's rendering, length or hash, and a locked copy's
\* hash is the hash of the copy's own rendering.
C4_CopyIndependentOfSource ==
    [][\A k \in DOMAIN heap :
        (source[k] # 0 /\ last'.obj = source[k]
            /\ last'.op \in {"unlock", "setattr", "lock"})
        => /\ Str(heap', k) = Str(heap, k)
           /\ LenOf(heap', k) = LenOf(heap, k)
           /\ Hash(heap', k) = Hash(heap, k)
           /\ heap'[k].locked => Hash(heap', k) = StrHash(Str(heap', k))
      ]_vars

\* C5: for a locked value, unlock() gives a value that is not locked, whose hash
\* is its identity hash and whose rendering and length are computed from its
\* contents, and a lock() right after gives back the rendering, length and hash
\* it had before the unlock(); unlock() on a value that is not locked changes
\* nothing.
C5_UnlockLockRoundTrip ==
    \A i \in Objs :
        IF heap[i].locked
        THEN LET h1 == unlock(heap, i)
                 h2 == lock(h1, i)
             IN  /\ ~h1[i].locked
                 /\ Hash(h1, i) = h1[i].original_hash
                 /\ Hash(h1, i)[1] = "id"
                 /\ Str(h1, i) = heap[i].text
                 /\ LenOf(h1, i) = Len(heap[i].text)
                 /\ h2[i].locked
                 /\ Str(h2, i) = Str(heap, i)
                 /\ LenOf(h2, i) = LenOf(heap, i)
                 /\ Hash(h2, i) = Hash(heap, i)
        ELSE unlock(heap, i) = heap

\* C10: two distinct values that are both not locked have different hashes and
\* do not compare equal.
C10_UnlockedNeverCollide ==
    \A i \in Objs, j \in Objs :
        (i # j /\ ~heap[i].locked /\ ~heap[j].locked)
            => (Hash(heap, i) # Hash(heap, j) /\ ~Eq(heap, i, j))

(***************************************************************************)
(* Claims about the tree transformer, checked under SpecTree.              *)
(***************************************************************************)

\* C6: a literal meta-character handler given one literal token of text s
\* returns the Terminal whose payload is the text s, and given no literal text
\* returns the Terminal of the tag's default.
C6_LiteralPayloadIsTokenText ==
    (pc = "done" /\ tag \in LiteralTags) =>
        /\ children = <<>> => result = Terminal(PyString(Defaults[tag]))
        /\ (Len(children) = 1 /\ children[1][1] = "Token")
              => result = Terminal(PyString(children[1][2]))

IsSymbolValue(v) == v[1] = "Terminal" \/ v[1] = "NonTerminal"

\* C7: the production handler returns, without raising, a new Production that is
\* not locked and whose symbols are exactly the Terminal and NonTerminal
\* children, in their order and with duplicates kept; a further add succeeds.
C7_ProductionKeepsSymbolsInOrder ==
    (pc = "done" /\ tag = "production") =>
        /\ err = "none"
        /\ result = <<"Production", SelectSeq(children, IsSymbolValue), FALSE>>
        /\ \A v \in {w \in ChildValues : IsSymbolValue(w)} :
              add(result, v)[2] = Append(SelectSeq(children, IsSymbolValue), v)
        /\ children = <<Terminal(PyString("a")), NonTerminal(PyString("A"))>>
              => result[2] = <<Terminal(PyString("a")), NonTerminal(PyString("A"))>>
        /\ children = <<Terminal(PyString("a"))>>
              => result[2] = <<Terminal(PyString("a"))>>

\* C7 witness: the handler ran on a list holding a symbol twice around a child
\* that is not a symbol, and returned the two symbols.
C7_Witness ==
    /\ pc = "done" /\ tag = "production"
    /\ children = <<Terminal(PyString("a")), Token("b"), Terminal(PyString("a"))>>
    /\ result = <<"Production", <<Terminal(PyString("a")), Terminal(PyString("a"))>>, FALSE>>

RECURSIVE TextsUpTo(_, _)
TextsUpTo(xs, n) ==
    IF n = 0 THEN "" ELSE TextsUpTo(xs, n - 1) \o xs[n][2]

\* C9: the terminal and non_terminal handlers return one Symbol of the matching
\* variant whose payload is the children's texts concatenated in order with no
\* separator.
C9_SymbolIsConcatenation ==
    (pc = "done" /\ tag \in {"terminal", "non_terminal"}
        /\ \A k \in DOMAIN children : children[k][1] = "Token") =>
        /\ err = "none"
        /\ result[1] = (IF tag = "terminal" THEN "Terminal" ELSE "NonTerminal")
        /\ result[2] = PyString(TextsUpTo(children, Len(children)))
        /\ children = <<Token("a"), Token("b"), Token("c")>>
              => result[2] = PyString("abc")

\* C9 witness: the terminal handler ran on the tokens a, b, c.
C9_Witness ==
    /\ pc = "done" /\ tag = "terminal"
    /\ children = <<Token("a"), Token("b"), Token("c")>>
    /\ result = Terminal(PyString("abc"))

====
